---- MODULE Spec2Model ----
(***************************************************************************)
(* Term-structure and spread engine of futures-analysis                    *)
(* (src/spreads_calculator.py): get_last_trade_dates,                      *)
(* calculate_days_to_expiry and create_monthly_futures_data.               *)
(*                                                                         *)
(* Days are integers (calendar day numbers).  An optional value (a NaN     *)
(* cell, a NaT date, an unset local) is the empty sequence <<>>, a present *)
(* value v is <<v>>.  Floats are exact rationals <<numerator, denominator>>*)
(* built the way the code builds them; they are compared with RatEq.       *)
(***************************************************************************)
EXTENDS Integers, Sequences, FiniteSets, TLC

\* ------------------------------------------------------------------ bounds
\* last_trade_date values of the enumerated metadata range over 1..MaxExpiry
MaxExpiry == 4
\* prices of the enumerated price tables range over 0..MaxPrice
MaxPrice == 1

\* days of the merged tables range over 1..MaxDay
MaxDay == 5
\* FetchConfig.LOOKBACK_DAYS ranges over 0..MaxLookback
MaxLookback == 2

\* ladder tables given to identify_roll_dates have at most MaxLadderDays days
MaxLadderDays == 4

\* the tickers of a backfill are fetched in at most MaxBatches batches
MaxBatches == 2

\* ------------------------------------------------------- program constants
\* SpreadsConfig.TRADING_DAYS_PER_YEAR default
TRADING_DAYS_PER_YEAR == 251

\* --------------------------------------------------------------- universe
\* prices_df.columns, in column order
Columns == <<"A", "B", "C">>
Contracts == {Columns[k] : k \in 1..Len(Columns)}
NumContracts == Len(Columns)

None == <<>>
Some(v) == <<v>>
IsSome(o) == o # <<>>
Val(o) == o[1]

Min(a, b) == IF a <= b THEN a ELSE b

\* exact rationals
Rat(n, d) == <<n, d>>
RatEq(p, q) == p[2] # 0 /\ q[2] # 0 /\ p[1] * q[2] = q[1] * p[2]

VARIABLES
    prices_df,              \* input: [index: Seq(day), cells: [1..N -> [Contracts -> Option(price)]]]
    metadata,               \* input: [Contracts -> [kind, day]]
    config,                 \* input: SpreadsConfig record
    result_index,           \* index of the five result frames, <<>> before they exist
    last_trade_dates,       \* contract -> Option(day), result of get_last_trade_dates
    monthly_futures,        \* [1..N -> [future: [1..K -> Option], price: [1..K -> Option]]]
    days_to_expiry_df,      \* [1..N -> [1..K -> Option(days)]]
    spreads_dollar,         \* [1..N -> [2..K -> Option(int)]]
    spreads_percent,        \* [1..N -> [2..K -> Option(rational)]]
    spreads_percent_annual, \* [1..N -> [2..K -> Option(rational)]]
    days_to_expiry,         \* the loop's local days_to_expiry: contract -> days
    pct_spread,             \* the function's local pct_spread: Option(rational)
    pos,                    \* position of the loop in prices_df.index
    pc                      \* "start", "loop", "returned", "raised" (NameError),
                            \* "value_error"

\* merge_with_existing (src/data_fetcher.py).  A table is the sequence of its
\* rows [day, row] in index order.
VARIABLES
    existing_prices,        \* prices.parquet of the commodity
    existing_volumes,       \* volumes.parquet of the commodity
    new_prices,             \* argument new_prices
    new_volumes,            \* argument new_volumes
    last_date,              \* argument last_date
    fetch_config,           \* argument config: FetchConfig record
    merged_prices,          \* result, <<>> before the return
    merged_volumes,         \* result, <<>> before the return
    merge_pc                \* "idle", "start", "returned"

merge_vars == <<existing_prices, existing_volumes, new_prices, new_volumes,
                last_date, fetch_config, merged_prices, merged_volumes,
                merge_pc>>

\* identify_roll_dates (src/spreads_visualizer.py)
VARIABLES
    monthly_futures_df,     \* argument: [has_front: BOOLEAN, front: Seq(Option(contract))],
                            \* the column month_1_future over the index 1..Len(front)
    roll_dates,             \* local and result: Seq(day)
    previous_front,         \* local: Option(contract), None is Python's None
    roll_pos,               \* position of the loop in monthly_futures_df.index
    roll_pc                 \* "idle", "start", "loop", "returned"

roll_vars == <<monthly_futures_df, roll_dates, previous_front, roll_pos, roll_pc>>

\* calculate_spreads_for_all (src/calculate_all_spreads.py)
VARIABLES
    results,                \* dict commodity -> [success, error]
    batch_pos,              \* position of the loop in COMMODITIES (i)
    saved,                  \* commodities whose spread files save_spread_data wrote
    successful,             \* the summary's count of successful results
    failed,                 \* the summary's reported number of failures
    batch_pc                \* "idle", "loop", "done"

batch_vars == <<results, batch_pos, saved, successful, failed, batch_pc>>

\* backfill_cl.main (src/backfill_cl.py)
VARIABLES
    existing_cl,            \* what the CL path held when main was called
    cl_dir,                 \* the CL path: "absent", "empty", "original",
                            \* "partial", "new"
    backup_dir,             \* the backup path: "absent", "empty", "original"
    backup_path,            \* local: None or Some("backup")
    num_batches,            \* len(batches)
    fetch_pos,              \* position of the price loop in batches
    raw_data,               \* "empty" or "data"
    fetched_prices,         \* prices_df of main: "unset", "None", "data"
    user_input,             \* local: None or Some(answer)
    backfill_pc             \* position of main and fetch_full_history

backfill_vars == <<existing_cl, cl_dir, backup_dir, backup_path, num_batches,
                   fetch_pos, raw_data, fetched_prices, user_input, backfill_pc>>

\* the variables of the other programs, which create_monthly_futures_data
\* does not touch
outside == <<merge_vars, roll_vars, batch_vars, backfill_vars>>

calc_vars == <<prices_df, metadata, config, result_index, last_trade_dates,
               monthly_futures, days_to_expiry_df, spreads_dollar,
               spreads_percent, spreads_percent_annual, days_to_expiry,
               pct_spread, pos, pc>>

vars == <<calc_vars, outside>>

inputs == <<prices_df, metadata, config>>

\* ---------------------------------------------------------- pure functions
\* lines 41-43 with a default date for a missing, empty or unparsable one
get_last_trade_dates_Default(md) ==
    [c \in DOMAIN md |->
        IF md[c].kind = "date" THEN Some(md[c].day) ELSE Some(MaxExpiry)]

\* get_last_trade_dates: pd.to_datetime(info['last_trade_date']) per metadata
\* item; an item whose lookup or parse raises is skipped, a null/empty date
\* parses to a null date (NaT) and stays in the mapping.
get_last_trade_dates(md) ==
    [c \in {x \in DOMAIN md : md[x].kind # "bad"} |->
        IF md[c].kind = "date" THEN Some(md[c].day) ELSE None]

\* a strict comparison on line 50
NotExpired_Strict(date, ltd) == IsSome(ltd) /\ Val(ltd) > date

\* the test of line 50 and the value of line 51 for one contract
NotExpired(date, ltd) == IsSome(ltd) /\ Val(ltd) >= date
\* the operands of line 51 exchanged
DaysBetween_Reversed(date, ltd) == date - Val(ltd)
DaysBetween(date, ltd) == Val(ltd) - date

\* lines 50 and 52 without the expiry tests: every dated contract is kept
calculate_days_to_expiry_NoFilter(date, ltds) ==
    [c \in {x \in DOMAIN ltds : IsSome(ltds[x])} |-> DaysBetween(date, ltds[c])]

\* calculate_days_to_expiry(date, last_trade_dates)
calculate_days_to_expiry(date, ltds) ==
    [c \in {x \in DOMAIN ltds : /\ NotExpired(date, ltds[x])
                                /\ DaysBetween(date, ltds[x]) >= 0} |->
        DaysBetween(date, ltds[c])]

\* the key of line 93 negated: the contracts sort by descending expiry
SortKey_Negated(dte, c) == 0 - dte[c]
\* key of the sort of line 93; all sorted contracts are in dte
SortKey(dte, c) == dte[c]

\* an insertion that puts a contract before the contracts of equal key
RECURSIVE InsertSorted_TiesReversed(_, _, _)
InsertSorted_TiesReversed(s, c, dte) ==
    IF s = <<>> THEN <<c>>
    ELSE IF SortKey(dte, s[Len(s)]) < SortKey(dte, c) THEN Append(s, c)
    ELSE Append(InsertSorted_TiesReversed(SubSeq(s, 1, Len(s) - 1), c, dte),
                s[Len(s)])

\* sorted(seq, key=...): Python's sort is stable; insertion after the last
\* element whose key is <= the inserted one keeps equal keys in input order
RECURSIVE InsertSorted(_, _, _)
InsertSorted(s, c, dte) ==
    IF s = <<>> THEN <<c>>
    ELSE IF SortKey(dte, s[Len(s)]) <= SortKey(dte, c) THEN Append(s, c)
    ELSE Append(InsertSorted(SubSeq(s, 1, Len(s) - 1), c, dte), s[Len(s)])

\* line 92 without the sort: the contracts stay in column order
sorted_Unsorted(s, dte) == s

RECURSIVE sorted(_, _)
sorted(s, dte) ==
    IF s = <<>> THEN <<>>
    ELSE InsertSorted(sorted(SubSeq(s, 1, Len(s) - 1), dte), s[Len(s)], dte)

\* [c for c in prices_df.columns if pd.notna(prices_df.loc[date, c])]
\* (prices_df.columns are the Columns the row has)
PricedContracts(row) ==
    SelectSeq(Columns, LAMBDA c : c \in DOMAIN row /\ IsSome(row[c]))

\* [c for c in valid_contracts if c in days_to_expiry]
FilterByExpiry(valid, dte) == SelectSeq(valid, LAMBDA c : c \in DOMAIN dte)

\* lines 97-98 without the break
LadderLen_NoBreak(ordered, cfg) == Len(ordered)

\* number of ladder ranks written by the loop of lines 96-101
LadderLen(ordered, cfg) ==
    IF cfg.MAX_MONTHS_FORWARD < 0 THEN 0
    ELSE Min(Len(ordered), cfg.MAX_MONTHS_FORWARD)

\* the ladder cells of one day (lines 96-101)
LadderFuture(ordered, cfg) ==
    [i \in 1..NumContracts |->
        IF i <= LadderLen(ordered, cfg) THEN Some(ordered[i]) ELSE None]
\* line 100 reading the price of the i-th column, not of the i-th contract
LadderPrice_ByColumn(ordered, row, cfg) ==
    [i \in 1..NumContracts |->
        IF i <= LadderLen(ordered, cfg) THEN row[Columns[i]] ELSE None]
LadderPrice(ordered, row, cfg) ==
    [i \in 1..NumContracts |->
        IF i <= LadderLen(ordered, cfg) THEN row[ordered[i]] ELSE None]
LadderDays(ordered, dte, cfg) ==
    [i \in 1..NumContracts |->
        IF i <= LadderLen(ordered, cfg) THEN Some(dte[ordered[i]]) ELSE None]

\* line 115 without the test of the near leg's days
Guard_NoNearDaysTest(m1_price, far_days, m1_days) ==
    m1_price # 0 /\ far_days # 0
\* line 115 with "or" for its first "and"
Guard_PriceOrDays(m1_price, far_days, m1_days) ==
    m1_price # 0 \/ (far_days # 0 /\ m1_days # 0)
\* line 115 without the test of the near price
Guard_NoPriceTest(m1_price, far_days, m1_days) == far_days # 0 /\ m1_days # 0

\* line 115: m1_price != 0 and far_days and m1_days
Guard(m1_price, far_days, m1_days) ==
    m1_price # 0 /\ far_days # 0 /\ m1_days # 0

DollarSpread(far_price, m1_price) == far_price - m1_price
\* line 122 dividing by the far price
PercentSpread_ByFar(far_price, m1_price) == Rat(far_price - m1_price, far_price)
PercentSpread(far_price, m1_price) == Rat(far_price - m1_price, m1_price)
\* line 129 with the quotient inverted
AnnualSpread_Inverted(pct, tdpy, days_difference) ==
    Rat(pct[1] * days_difference, pct[2] * tdpy)
\* pct_spread * (TRADING_DAYS_PER_YEAR / days_difference)
AnnualSpread(pct, tdpy, days_difference) ==
    Rat(pct[1] * tdpy, pct[2] * days_difference)
\* line 128 with >= for >
AnnualGap_NonNegative(days_difference) == days_difference >= 0
\* line 128
AnnualGap(days_difference) == days_difference > 0

\* one iteration of the loop of line 110, far rank r = i + 1; acc carries the
\* spread rows of the day, the local pct_spread and whether a NameError was
\* raised (pct_spread read before any assignment)
SpreadStep(acc, r, ordered, row, dte, cfg) ==
    LET m1_price == Val(row[ordered[1]])
        m1_days == dte[ordered[1]]
        far_price == Val(row[ordered[r]])
        far_days == dte[ordered[r]]
        days_difference == far_days - m1_days
        pct == IF cfg.CALCULATE_PERCENT_SPREADS
               THEN Some(PercentSpread(far_price, m1_price)) ELSE acc.pct
        wantAnnual == cfg.CALCULATE_ANNUAL_SPREADS /\ AnnualGap(days_difference)
    IN  IF acc.raised \/ ~Guard(m1_price, far_days, m1_days) THEN acc
        ELSE [dollar |-> IF cfg.CALCULATE_DOLLAR_SPREADS
                         THEN [acc.dollar EXCEPT ![r] = Some(DollarSpread(far_price, m1_price))]
                         ELSE acc.dollar,
              percent |-> IF cfg.CALCULATE_PERCENT_SPREADS
                          THEN [acc.percent EXCEPT ![r] = pct]
                          ELSE acc.percent,
              annual |-> IF wantAnnual /\ IsSome(pct)
                         THEN [acc.annual EXCEPT ![r] =
                                 Some(AnnualSpread(Val(pct), cfg.TRADING_DAYS_PER_YEAR,
                                                   days_difference))]
                         ELSE acc.annual,
              pct |-> pct,
              raised |-> wantAnnual /\ ~IsSome(pct)]

\* upper end of range(1, min(len(ordered_contracts), MAX_MONTHS_FORWARD)),
\* as a far rank
LastFarRank(ordered, cfg) == Min(Len(ordered), cfg.MAX_MONTHS_FORWARD)

RECURSIVE SpreadLoop(_, _, _, _, _, _)
SpreadLoop(acc, r, ordered, row, dte, cfg) ==
    IF r > LastFarRank(ordered, cfg) THEN acc
    ELSE SpreadLoop(SpreadStep(acc, r, ordered, row, dte, cfg), r + 1,
                    ordered, row, dte, cfg)

EmptyRow == [i \in 1..NumContracts |-> None]
EmptySpreadRow == [i \in 2..NumContracts |-> None]

\* lines 104-131 for one day
Spreads(ordered, row, dte, cfg, pct0) ==
    LET acc0 == [dollar |-> EmptySpreadRow, percent |-> EmptySpreadRow,
                 annual |-> EmptySpreadRow, pct |-> pct0, raised |-> FALSE]
    IN  IF Len(ordered) >= 2 THEN SpreadLoop(acc0, 2, ordered, row, dte, cfg)
        ELSE acc0

\* one iteration of the loop of line 76 as a function: the cells written on
\* the k-th day of pdf, the local pct_spread after it, and how it ended
\* ("ok", NameError "raised", or "value_error" on a repeated date)
DayOutcome(pdf, k, ltds, cfg, pct0) ==
    LET date == pdf.index[k]
        row == pdf.cells[k]
        dte == calculate_days_to_expiry(date, ltds)
        valid == FilterByExpiry(PricedContracts(row), dte)
        ordered == sorted(valid, dte)
        sp == Spreads(ordered, row, dte, cfg, pct0)
        skip(end) == [end |-> end, future |-> EmptyRow, price |-> EmptyRow,
                      days |-> EmptyRow, dollar |-> EmptySpreadRow,
                      percent |-> EmptySpreadRow, annual |-> EmptySpreadRow,
                      pct |-> pct0]
    IN  IF Cardinality({j \in 1..Len(pdf.index) : pdf.index[j] = date}) > 1
        THEN skip("value_error")
        ELSE IF valid = <<>> THEN skip("ok")
        ELSE [end |-> IF sp.raised THEN "raised" ELSE "ok",
              future |-> LadderFuture(ordered, cfg),
              price |-> LadderPrice(ordered, row, cfg),
              days |-> LadderDays(ordered, dte, cfg),
              dollar |-> sp.dollar, percent |-> sp.percent,
              annual |-> sp.annual, pct |-> sp.pct]

\* the iterations of the loop from day k on; done holds the outcomes of the
\* days before k, the loop stops at the first day that does not end "ok"
RECURSIVE DaysFrom(_, _, _, _, _, _)
DaysFrom(pdf, k, ltds, cfg, pct0, done) ==
    IF k > Len(pdf.index) THEN done
    ELSE LET day == DayOutcome(pdf, k, ltds, cfg, pct0)
         IN  IF day.end # "ok" THEN Append(done, day)
             ELSE DaysFrom(pdf, k + 1, ltds, cfg, day.pct, Append(done, day))

\* create_monthly_futures_data(pdf, md, cfg) as a function of its arguments:
\* how the call ends and the five tables at that point
create_monthly_futures_data(pdf, md, cfg) ==
    LET days == DaysFrom(pdf, 1, get_last_trade_dates(md), cfg, None, <<>>)
        N == Len(pdf.index)
        written(d) == d <= Len(days)
    IN  [pc |-> IF days # <<>> /\ days[Len(days)].end # "ok"
                THEN days[Len(days)].end ELSE "returned",
         index |-> pdf.index,
         monthly_futures |->
            [d \in 1..N |->
               [future |-> IF written(d) THEN days[d].future ELSE EmptyRow,
                price |-> IF written(d) THEN days[d].price ELSE EmptyRow]],
         days_to_expiry_df |->
            [d \in 1..N |-> IF written(d) THEN days[d].days ELSE EmptyRow],
         spreads_dollar |->
            [d \in 1..N |-> IF written(d) THEN days[d].dollar ELSE EmptySpreadRow],
         spreads_percent |->
            [d \in 1..N |-> IF written(d) THEN days[d].percent ELSE EmptySpreadRow],
         spreads_percent_annual |->
            [d \in 1..N |-> IF written(d) THEN days[d].annual ELSE EmptySpreadRow]]

\* ------------------------------------------------------------------ inputs
\* metadata[c]['last_trade_date']: a parsable date, a null/empty value, or a
\* missing/unparsable one
DateVals == {[kind |-> "date", day |-> d] : d \in 1..MaxExpiry}
NullOrDate == {[kind |-> "null", day |-> 0]} \cup DateVals
MetaVals == {[kind |-> "bad", day |-> 0]} \cup NullOrDate

AllOn(k) ==
    [TRADING_DAYS_PER_YEAR |-> TRADING_DAYS_PER_YEAR,
     MAX_MONTHS_FORWARD |-> k,
     CALCULATE_DOLLAR_SPREADS |-> TRUE,
     CALCULATE_PERCENT_SPREADS |-> TRUE,
     CALCULATE_ANNUAL_SPREADS |-> TRUE]

Configs ==
    [TRADING_DAYS_PER_YEAR : {TRADING_DAYS_PER_YEAR},
     MAX_MONTHS_FORWARD : 1..NumContracts,
     CALCULATE_DOLLAR_SPREADS : BOOLEAN,
     CALCULATE_PERCENT_SPREADS : BOOLEAN,
     CALCULATE_ANNUAL_SPREADS : BOOLEAN]

\* a price table on the day index idx: cell (d, c) is price[c], or NaN where
\* c is not in mask[d]
Table(idx, mask, price) ==
    [index |-> idx,
     cells |-> [d \in 1..Len(idx) |->
                  [c \in Contracts |->
                     IF c \in mask[d] THEN Some(price[c]) ELSE None]]]

\* Data gaps: two days with a day between them, every pattern of missing
\* cells, every pattern of dated and null metadata, every horizon; all spread
\* kinds enabled
GapPrices == [c \in Contracts |-> IF c = "A" THEN 1 ELSE IF c = "B" THEN 2 ELSE 3]
GapInputs ==
    {[prices_df |-> Table(<<1, 3>>, mask, GapPrices), metadata |-> md,
      config |-> AllOn(k)] :
     mask \in [1..2 -> SUBSET Contracts],
     md \in [Contracts -> NullOrDate],
     k \in 1..NumContracts}

\* Metadata gaps: two consecutive days, every cell priced, every metadata
\* pattern, every horizon
MetaInputs ==
    {[prices_df |-> Table(<<1, 2>>, [d \in 1..2 |-> Contracts], GapPrices),
      metadata |-> md, config |-> AllOn(k)] :
     md \in [Contracts -> MetaVals], k \in 1..NumContracts}

\* Values and flags: two consecutive days, every cell priced, every price
\* vector over 0..MaxPrice, every dated metadata, every combination of spread
\* kinds, horizon NumContracts
ValueInputs ==
    {[prices_df |-> Table(<<1, 2>>, [d \in 1..2 |-> Contracts], price),
      metadata |-> md, config |-> cfg] :
     price \in [Contracts -> 0..MaxPrice],
     md \in [Contracts -> DateVals],
     cfg \in {c \in Configs : c.MAX_MONTHS_FORWARD = NumContracts}}

\* the 3 days x 3 contracts scenario: A expires day 2, B day 10, C day 20,
\* priced 100/101/102 every day, horizon 2, 252 trading days per year
ScenarioInput ==
    [prices_df |->
        Table(<<1, 2, 3>>, [d \in 1..3 |-> Contracts],
              [c \in Contracts |->
                 IF c = "A" THEN 100 ELSE IF c = "B" THEN 101 ELSE 102]),
     metadata |->
        [c \in Contracts |->
           [kind |-> "date",
            day |-> IF c = "A" THEN 2 ELSE IF c = "B" THEN 10 ELSE 20]],
     config |-> [AllOn(2) EXCEPT !.TRADING_DAYS_PER_YEAR = 252]]

\* Malformed day index: a decreasing index, an index whose first day is
\* repeated, an index whose second day is repeated; every cell priced, every
\* dated metadata, all spread kinds enabled, horizon NumContracts
MalformedIndexes == {<<2, 1>>, <<1, 1>>, <<1, 2, 2>>}
IndexInputs ==
    {[prices_df |-> Table(idx, [d \in 1..Len(idx) |-> Contracts], GapPrices),
      metadata |-> md, config |-> AllOn(NumContracts)] :
     idx \in MalformedIndexes, md \in [Contracts -> DateVals]}

\* Non-positive configuration values: SpreadsConfig accepts any integer for
\* MAX_MONTHS_FORWARD and TRADING_DAYS_PER_YEAR; two consecutive days, every
\* cell priced, every dated metadata, all spread kinds enabled
NonPositiveConfigs ==
    {[AllOn(NumContracts) EXCEPT !.MAX_MONTHS_FORWARD = 0],
     [AllOn(NumContracts) EXCEPT !.MAX_MONTHS_FORWARD = -1],
     [AllOn(NumContracts) EXCEPT !.TRADING_DAYS_PER_YEAR = 0],
     [AllOn(NumContracts) EXCEPT !.TRADING_DAYS_PER_YEAR = -TRADING_DAYS_PER_YEAR]}
ConfigInputs ==
    {[prices_df |-> Table(<<1, 2>>, [d \in 1..2 |-> Contracts], GapPrices),
      metadata |-> md, config |-> cfg] :
     md \in [Contracts -> DateVals], cfg \in NonPositiveConfigs}

\* Missing metadata entries: the metadata names a proper subset of the
\* columns, each with a date; two consecutive days, every cell priced, all
\* spread kinds enabled, horizon NumContracts
MissingEntryInputs ==
    {[prices_df |-> Table(<<1, 2>>, [d \in 1..2 |-> Contracts], GapPrices),
      metadata |-> md, config |-> AllOn(NumContracts)] :
     md \in UNION {[S -> DateVals] : S \in (SUBSET Contracts) \ {Contracts}}}

NumDays == Len(prices_df.index)
EmptyLadder == [d \in 1..NumDays |-> [future |-> EmptyRow, price |-> EmptyRow]]
EmptyTable == [d \in 1..NumDays |-> EmptyRow]
EmptySpreadTable == [d \in 1..NumDays |-> EmptySpreadRow]

\* merge_with_existing is not running
MergeIdle ==
    /\ existing_prices = <<>>
    /\ existing_volumes = <<>>
    /\ new_prices = <<>>
    /\ new_volumes = <<>>
    /\ last_date = 0
    /\ fetch_config = <<>>
    /\ merged_prices = <<>>
    /\ merged_volumes = <<>>
    /\ merge_pc = "idle"

\* identify_roll_dates is not running
RollIdle ==
    /\ monthly_futures_df = <<>>
    /\ roll_dates = <<>>
    /\ previous_front = None
    /\ roll_pos = 0
    /\ roll_pc = "idle"

\* calculate_spreads_for_all is not running
BatchIdle ==
    /\ results = <<>>
    /\ batch_pos = 0
    /\ saved = {}
    /\ successful = 0
    /\ failed = 0
    /\ batch_pc = "idle"

\* backfill_cl.main is not running
BackfillIdle ==
    /\ existing_cl = "absent"
    /\ cl_dir = "absent"
    /\ backup_dir = "absent"
    /\ backup_path = None
    /\ num_batches = 0
    /\ fetch_pos = 0
    /\ raw_data = "empty"
    /\ fetched_prices = "unset"
    /\ user_input = None
    /\ backfill_pc = "idle"

\* no other program is running
OutsideIdle == MergeIdle /\ RollIdle /\ BatchIdle /\ BackfillIdle

\* the state on entry of create_monthly_futures_data(inp.prices_df,
\* inp.metadata, inp.config)
Entry(inp) ==
    /\ prices_df = inp.prices_df
    /\ metadata = inp.metadata
    /\ config = inp.config
    /\ result_index = <<>>
    /\ last_trade_dates = <<>>
    /\ monthly_futures = EmptyLadder
    /\ days_to_expiry_df = EmptyTable
    /\ spreads_dollar = EmptySpreadTable
    /\ spreads_percent = EmptySpreadTable
    /\ spreads_percent_annual = EmptySpreadTable
    /\ days_to_expiry = <<>>
    /\ pct_spread = None
    /\ pos = 0
    /\ pc = "start"
    /\ OutsideIdle

Init ==
    \/ \E inp \in GapInputs : Entry(inp)
    \/ \E inp \in MetaInputs : Entry(inp)
    \/ \E inp \in ValueInputs : Entry(inp)
    \/ \E inp \in IndexInputs : Entry(inp)
    \/ \E inp \in ConfigInputs : Entry(inp)
    \/ \E inp \in MissingEntryInputs : Entry(inp)
    \/ Entry(ScenarioInput)

\* ----------------------------------------------------------------- actions
\* lines 60-74: read the metadata, create the five result frames on
\* prices_df.index
Start ==
    /\ pc = "start"
    /\ last_trade_dates' = get_last_trade_dates(metadata)
    /\ result_index' = prices_df.index
    /\ monthly_futures' = EmptyLadder
    /\ days_to_expiry_df' = EmptyTable
    /\ spreads_dollar' = EmptySpreadTable
    /\ spreads_percent' = EmptySpreadTable
    /\ spreads_percent_annual' = EmptySpreadTable
    /\ pos' = 1
    /\ pc' = "loop"
    /\ UNCHANGED <<outside, inputs, days_to_expiry, pct_spread>>

\* the locals of one iteration of the loop of line 76
CurDate == prices_df.index[pos]
\* the row of the date with its missing cells filled from the row before
CurRow_ForwardFill ==
    [c \in DOMAIN prices_df.cells[pos] |->
        IF IsSome(prices_df.cells[pos][c]) \/ pos = 1
        THEN prices_df.cells[pos][c] ELSE prices_df.cells[pos - 1][c]]
CurRow == prices_df.cells[pos]
CurDte == calculate_days_to_expiry(CurDate, last_trade_dates)
CurValid == FilterByExpiry(PricedContracts(CurRow), CurDte)
CurOrdered == sorted(CurValid, CurDte)
CurSpreads == Spreads(CurOrdered, CurRow, CurDte, config, pct_spread)

\* prices_df.loc[date, c] of line 79 is a Series, not a scalar, when the
\* label date occurs more than once in prices_df.index
DuplicateDate ==
    Cardinality({k \in 1..NumDays : prices_df.index[k] = CurDate}) > 1

InLoop == pc = "loop" /\ pos <= NumDays /\ ~DuplicateDate

\* lines 78-82: no priced contract on the day
SkipUnpriced ==
    /\ InLoop
    /\ PricedContracts(CurRow) = <<>>
    /\ pos' = pos + 1
    /\ UNCHANGED <<outside, inputs, result_index, last_trade_dates, monthly_futures, days_to_expiry_df,
                   spreads_dollar, spreads_percent, spreads_percent_annual,
                   days_to_expiry, pct_spread, pc>>

\* line 89 with break for continue
SkipIneligible_Break ==
    /\ InLoop
    /\ PricedContracts(CurRow) # <<>>
    /\ CurValid = <<>>
    /\ days_to_expiry' = CurDte
    /\ pos' = NumDays + 1
    /\ UNCHANGED <<outside, inputs, result_index, last_trade_dates, monthly_futures, days_to_expiry_df,
                   spreads_dollar, spreads_percent, spreads_percent_annual,
                   pct_spread, pc>>

\* lines 85-89: no priced contract is unexpired
SkipIneligible ==
    /\ InLoop
    /\ PricedContracts(CurRow) # <<>>
    /\ CurValid = <<>>
    /\ days_to_expiry' = CurDte
    /\ pos' = pos + 1
    /\ UNCHANGED <<outside, inputs, result_index, last_trade_dates, monthly_futures, days_to_expiry_df,
                   spreads_dollar, spreads_percent, spreads_percent_annual,
                   pct_spread, pc>>

\* the writes of lines 96-131 for the current day, given the day's sorted
\* contracts and the outcome of its spread loop
WriteDay(ordered, sp) ==
    /\ monthly_futures' =
         [monthly_futures EXCEPT ![pos] =
            [future |-> LadderFuture(ordered, config),
             price |-> LadderPrice(ordered, CurRow, config)]]
    /\ days_to_expiry_df' =
         [days_to_expiry_df EXCEPT ![pos] = LadderDays(ordered, CurDte, config)]
    /\ spreads_dollar' = [spreads_dollar EXCEPT ![pos] = sp.dollar]
    /\ spreads_percent' = [spreads_percent EXCEPT ![pos] = sp.percent]
    /\ spreads_percent_annual' =
         [spreads_percent_annual EXCEPT ![pos] = sp.annual]
    /\ days_to_expiry' = CurDte
    /\ pct_spread' = sp.pct

\* lines 91-131 with the expired contracts deleted from last_trade_dates
ProcessDate_PruneExpired ==
    /\ InLoop
    /\ CurValid # <<>>
    /\ LET sp == CurSpreads
       IN  /\ ~sp.raised
           /\ WriteDay(CurOrdered, sp)
    /\ last_trade_dates' = [c \in DOMAIN CurDte |-> last_trade_dates[c]]
    /\ pos' = pos + 1
    /\ UNCHANGED <<outside, inputs, result_index, pc>>

\* lines 91-131: ladder and spreads of the day
ProcessDate ==
    /\ InLoop
    /\ CurValid # <<>>
    /\ LET sp == CurSpreads
       IN  /\ ~sp.raised
           /\ WriteDay(CurOrdered, sp)
    /\ pos' = pos + 1
    /\ UNCHANGED <<outside, inputs, result_index, last_trade_dates, pc>>

\* line 130 reads pct_spread, which no statement has assigned: NameError
\* leaves the function
RaiseNameError ==
    /\ InLoop
    /\ CurValid # <<>>
    /\ LET sp == CurSpreads
       IN  /\ sp.raised
           /\ WriteDay(CurOrdered, sp)
    /\ pc' = "raised"
    /\ UNCHANGED <<outside, inputs, result_index, last_trade_dates, pos>>

\* lines 78-79 on a repeated date: the truth value of the Series
\* pd.notna(prices_df.loc[date, c]) is ambiguous, ValueError leaves the
\* function
RaiseValueError ==
    /\ pc = "loop"
    /\ pos <= NumDays
    /\ DuplicateDate
    /\ pc' = "value_error"
    /\ UNCHANGED <<outside, inputs, result_index, last_trade_dates, monthly_futures, days_to_expiry_df,
                   spreads_dollar, spreads_percent, spreads_percent_annual,
                   days_to_expiry, pct_spread, pos>>

\* lines 133-135
Return ==
    /\ pc = "loop"
    /\ pos > NumDays
    /\ pc' = "returned"
    /\ UNCHANGED <<outside, inputs, result_index, last_trade_dates, monthly_futures, days_to_expiry_df,
                   spreads_dollar, spreads_percent, spreads_percent_annual,
                   days_to_expiry, pct_spread, pos>>

Next ==
    \/ Start
    \/ SkipUnpriced
    \/ SkipIneligible
    \/ ProcessDate
    \/ RaiseNameError
    \/ RaiseValueError
    \/ Return

Spec == Init /\ [][Next]_vars

\* ------------------------------------------------ vocabulary of the claims
\* read from the inputs and the returned tables only
Index == prices_df.index
Priced(d, c) == IsSome(prices_df.cells[d][c])
Price(d, c) == Val(prices_df.cells[d][c])
HasDate(c) == c \in DOMAIN metadata /\ metadata[c].kind = "date"
Ltd(c) == metadata[c].day
Eligible(d) == {c \in Contracts : Priced(d, c) /\ HasDate(c) /\ Ltd(c) >= Index[d]}
Days(d, c) == Ltd(c) - Index[d]
\* the function has returned its five tables
Returned == pc = "returned"
\* the days whose iteration of the loop has completed
Processed == {d \in 1..NumDays : pc # "start" /\ d < pos}
\* the day of the last iteration entered
LastDay == IF pc = "raised" THEN pos ELSE pos - 1
LadderRanks(d) == {i \in 1..NumContracts : IsSome(monthly_futures[d].future[i])}
LadderContract(d, i) == Val(monthly_futures[d].future[i])
LadderPriceAt(d, i) == Val(monthly_futures[d].price[i])
LadderDaysAt(d, i) == Val(days_to_expiry_df[d][i])
Horizon == config.MAX_MONTHS_FORWARD
FarRanks == 2..NumContracts

\* C1: after a call calculate_days_to_expiry(date, last_trade_dates) the
\* result's keys are exactly the contracts with a non-null last trade date
\* L >= date, each mapped to L - date; L = date gives 0; no value is negative
C1_DaysToExpiry ==
    \A d \in 1..NumDays :
        (pc # "start" /\ d = LastDay /\ \E c \in Contracts : Priced(d, c)) =>
            /\ DOMAIN days_to_expiry =
                 {c \in DOMAIN last_trade_dates :
                    /\ last_trade_dates[c] # None
                    /\ Val(last_trade_dates[c]) >= Index[d]}
            /\ \A c \in DOMAIN days_to_expiry :
                 /\ days_to_expiry[c] = Val(last_trade_dates[c]) - Index[d]
                 /\ days_to_expiry[c] >= 0
                 /\ (Val(last_trade_dates[c]) = Index[d] => days_to_expiry[c] = 0)

\* a call whose map holds a contract expiring on the date (kept with 0), an
\* expired one and a null one (both omitted)
C1_Witness ==
    /\ pc = "loop" /\ LastDay = 2
    /\ \E c \in DOMAIN days_to_expiry : days_to_expiry[c] = 0
    /\ \E c \in DOMAIN last_trade_dates \ DOMAIN days_to_expiry :
         last_trade_dates[c] # None /\ Val(last_trade_dates[c]) = Index[2] - 1
    /\ \E c \in DOMAIN last_trade_dates \ DOMAIN days_to_expiry :
         last_trade_dates[c] = None

\* C2: a contract in the ladder of day d is priced on d and its last trade
\* date is on or after d; a priced contract expiring on d itself is ranked
\* (it takes rank 1), one that expired the day before is never ranked
C2_LadderEligible ==
    Returned =>
    \A d \in Processed :
        /\ \A i \in LadderRanks(d) :
             /\ Priced(d, LadderContract(d, i))
             /\ HasDate(LadderContract(d, i))
             /\ Ltd(LadderContract(d, i)) >= Index[d]
        /\ (Horizon >= 1 /\ \E c \in Contracts :
                              Priced(d, c) /\ HasDate(c) /\ Ltd(c) = Index[d])
             => /\ 1 \in LadderRanks(d)
                /\ Ltd(LadderContract(d, 1)) = Index[d]

\* a day whose ladder holds a contract expiring that day while another
\* priced contract expired the day before
C2_Witness ==
    \E d \in Processed :
        /\ \E i \in LadderRanks(d) : Ltd(LadderContract(d, i)) = Index[d]
        /\ \E c \in Contracts :
             Priced(d, c) /\ HasDate(c) /\ Ltd(c) = Index[d] - 1

\* C3: on every day the days-to-expiry of the ladder are non-decreasing in
\* rank and rank 1 has the least days-to-expiry of the eligible contracts
C3_RankOrder ==
    Returned =>
    \A d \in Processed :
        /\ \A i, j \in LadderRanks(d) :
             i < j => LadderDaysAt(d, i) <= LadderDaysAt(d, j)
        /\ (Horizon >= 1 /\ Eligible(d) # {}) =>
             /\ 1 \in LadderRanks(d)
             /\ \A c \in Eligible(d) : LadderDaysAt(d, 1) <= Days(d, c)
             /\ \E c \in Eligible(d) : LadderDaysAt(d, 1) = Days(d, c)

\* a ladder of three ranks whose order differs from the column order
C3_Witness ==
    \E d \in Processed :
        /\ LadderRanks(d) = 1..3
        /\ LadderDaysAt(d, 1) < LadderDaysAt(d, 2)
        /\ LadderDaysAt(d, 2) < LadderDaysAt(d, 3)
        /\ LadderContract(d, 1) = "C"
        /\ LadderContract(d, 3) = "A"

\* C4: the ladder of a day with n eligible contracts has the ranks
\* 1..min(n, MAX_MONTHS_FORWARD), filled with distinct eligible contracts
\* none of which expires later than an eligible contract left out
C4_HorizonTruncation ==
    Returned =>
    \A d \in Processed :
        /\ LadderRanks(d) = 1..Min(Cardinality(Eligible(d)), Horizon)
        /\ Cardinality(LadderRanks(d)) <= Horizon
        /\ \A i \in LadderRanks(d) : LadderContract(d, i) \in Eligible(d)
        /\ \A i, j \in LadderRanks(d) :
             i # j => LadderContract(d, i) # LadderContract(d, j)
        /\ \A i \in LadderRanks(d) :
             \A c \in Eligible(d) \ {LadderContract(d, k) : k \in LadderRanks(d)} :
                Days(d, LadderContract(d, i)) <= Days(d, c)

\* the legs of the spread of far rank i on day d, read from the ladder
NearPrice(d) == Price(d, LadderContract(d, 1))
FarPrice(d, i) == Price(d, LadderContract(d, i))
NearDays(d) == Days(d, LadderContract(d, 1))
FarDays(d, i) == Days(d, LadderContract(d, i))
DayGap(d, i) == FarDays(d, i) - NearDays(d)
GuardPasses(d, i) == NearPrice(d) # 0 /\ NearDays(d) # 0 /\ FarDays(d, i) # 0
\* a rational cell holds the value q
CellIs(cell, q) == IsSome(cell) /\ RatEq(Val(cell), q)
DollarOn == config.CALCULATE_DOLLAR_SPREADS
PercentOn == config.CALCULATE_PERCENT_SPREADS
AnnualOn == config.CALCULATE_ANNUAL_SPREADS
TDPY == config.TRADING_DAYS_PER_YEAR

\* C5: with dollar and percent spreads enabled, on a day with n >= 2
\* eligible contracts every far rank i <= min(n, MAX_MONTHS_FORWARD) on which
\* the guard passes has dollar = price(i) - price(1) and percent =
\* (price(i) - price(1)) / price(1); no spread cell of any kind lies above
\* rank min(n, MAX_MONTHS_FORWARD)
C5_SpreadValues ==
    Returned =>
    \A d \in Processed : \A i \in FarRanks :
        /\ (DollarOn /\ PercentOn /\ Cardinality(Eligible(d)) >= 2
              /\ i <= Min(Cardinality(Eligible(d)), Horizon) /\ GuardPasses(d, i))
             => /\ spreads_dollar[d][i] = Some(FarPrice(d, i) - NearPrice(d))
                /\ CellIs(spreads_percent[d][i],
                          Rat(FarPrice(d, i) - NearPrice(d), NearPrice(d)))
        /\ i > Min(Cardinality(Eligible(d)), Horizon)
             => /\ spreads_dollar[d][i] = None
                /\ spreads_percent[d][i] = None
                /\ spreads_percent_annual[d][i] = None

\* a returned run with a day carrying two different dollar spreads against
\* the same near leg, and a day with three eligible contracts cut to horizon 2
C5_Witness ==
    /\ pc = "returned"
    /\ \E d \in Processed :
         /\ IsSome(spreads_dollar[d][2]) /\ IsSome(spreads_dollar[d][3])
         /\ spreads_dollar[d][2] # spreads_dollar[d][3]
         /\ IsSome(spreads_percent[d][3])
         /\ FarPrice(d, 3) # NearPrice(d)

\* C6 as amended: an annualized cell is present only where the day gap of
\* the pair is positive and then equals percent * TRADING_DAYS_PER_YEAR /
\* gap; on a gap of 0 the annualized cell is absent, and the dollar and
\* percent cells of the pair are emitted where the guard passes and the kind
\* is enabled
C6_Annualized ==
    Returned =>
    \A d \in Processed : \A i \in FarRanks :
        /\ IsSome(spreads_percent_annual[d][i]) =>
             /\ i \in LadderRanks(d)
             /\ DayGap(d, i) > 0
             /\ CellIs(spreads_percent_annual[d][i],
                       Rat((FarPrice(d, i) - NearPrice(d)) * TDPY,
                           NearPrice(d) * DayGap(d, i)))
             /\ IsSome(spreads_percent[d][i])
             /\ CellIs(spreads_percent_annual[d][i],
                       Rat(Val(spreads_percent[d][i])[1] * TDPY,
                           Val(spreads_percent[d][i])[2] * DayGap(d, i)))
        /\ (i \in LadderRanks(d) /\ DayGap(d, i) = 0) =>
             /\ spreads_percent_annual[d][i] = None
             /\ (GuardPasses(d, i) /\ DollarOn) =>
                    spreads_dollar[d][i] = Some(FarPrice(d, i) - NearPrice(d))
             /\ (GuardPasses(d, i) /\ PercentOn) => IsSome(spreads_percent[d][i])
             /\ ~GuardPasses(d, i) =>
                    spreads_dollar[d][i] = None /\ spreads_percent[d][i] = None

\* a day with one far leg at gap 0 (dollar and percent, no annualized cell)
\* and another far leg with an annualized cell
C6_Witness ==
    \E d \in Processed :
        /\ LadderRanks(d) = 1..3
        /\ DayGap(d, 2) = 0 /\ GuardPasses(d, 2)
        /\ IsSome(spreads_dollar[d][2]) /\ IsSome(spreads_percent[d][2])
        /\ spreads_percent_annual[d][2] = None
        /\ IsSome(spreads_percent_annual[d][3])

\* C6 as claimed: as C6_Annualized, but on a gap of 0 the dollar and percent
\* cells are emitted whenever all kinds are enabled
C6_Original ==
    Returned =>
    \A d \in Processed : \A i \in FarRanks :
        /\ IsSome(spreads_percent_annual[d][i]) =>
             /\ i \in LadderRanks(d)
             /\ DayGap(d, i) > 0
             /\ CellIs(spreads_percent_annual[d][i],
                       Rat((FarPrice(d, i) - NearPrice(d)) * TDPY,
                           NearPrice(d) * DayGap(d, i)))
        /\ (DollarOn /\ PercentOn /\ AnnualOn
              /\ i \in LadderRanks(d) /\ DayGap(d, i) = 0) =>
             /\ spreads_percent_annual[d][i] = None
             /\ IsSome(spreads_dollar[d][i])
             /\ IsSome(spreads_percent[d][i])

\* C7 as amended: with percent spreads enabled, a present dollar cell has a
\* present percent cell equal to dollar / near price, and the near price of
\* the day is not 0
C7_DollarImpliesPercent ==
    (Returned /\ PercentOn) =>
    \A d \in 1..NumDays : \A i \in FarRanks :
        IsSome(spreads_dollar[d][i]) =>
            /\ 1 \in LadderRanks(d)
            /\ NearPrice(d) # 0
            /\ CellIs(spreads_percent[d][i],
                      Rat(Val(spreads_dollar[d][i]), NearPrice(d)))

\* a returned run with a non-zero dollar cell and its percent cell
C7_Witness ==
    /\ pc = "returned" /\ PercentOn
    /\ \E d \in Processed : \E i \in FarRanks :
         /\ IsSome(spreads_dollar[d][i]) /\ Val(spreads_dollar[d][i]) # 0
         /\ IsSome(spreads_percent[d][i])

\* C7 as claimed: in the returned tables every present dollar cell has a
\* present percent cell equal to dollar / near price, near price not 0
C7_Original ==
    Returned =>
    \A d \in 1..NumDays : \A i \in FarRanks :
        IsSome(spreads_dollar[d][i]) =>
            /\ 1 \in LadderRanks(d)
            /\ NearPrice(d) # 0
            /\ CellIs(spreads_percent[d][i],
                      Rat(Val(spreads_dollar[d][i]), NearPrice(d)))

\* C8: the 3 days x 3 contracts scenario returns day 1 = [A(100, 1 day),
\* B(101, 9 days)] with dollar 1, percent 0.01 and annualized 0.315, day 2 =
\* [A(100, 0 days), B(101, 8 days)], day 3 = [B(101, 7 days), C(102, 17
\* days)] with dollar 1 in the same column spread_1_2m
IsScenario ==
    /\ prices_df = ScenarioInput.prices_df
    /\ metadata = ScenarioInput.metadata
    /\ config = ScenarioInput.config
C8_Scenario ==
    (IsScenario /\ pc = "returned") =>
        /\ monthly_futures[1].future = <<Some("A"), Some("B"), None>>
        /\ monthly_futures[1].price = <<Some(100), Some(101), None>>
        /\ days_to_expiry_df[1] = <<Some(1), Some(9), None>>
        /\ spreads_dollar[1][2] = Some(1)
        /\ CellIs(spreads_percent[1][2], Rat(1, 100))
        /\ CellIs(spreads_percent_annual[1][2], Rat(315, 1000))
        /\ monthly_futures[2].future = <<Some("A"), Some("B"), None>>
        /\ monthly_futures[2].price = <<Some(100), Some(101), None>>
        /\ days_to_expiry_df[2] = <<Some(0), Some(8), None>>
        /\ monthly_futures[3].future = <<Some("B"), Some("C"), None>>
        /\ monthly_futures[3].price = <<Some(101), Some(102), None>>
        /\ days_to_expiry_df[3] = <<Some(7), Some(17), None>>
        /\ spreads_dollar[3][2] = Some(1)

\* the scenario has run to its return
C8_Witness == IsScenario /\ pc = "returned" /\ Processed = 1..3

\* --- implicit roll
LadderContracts(d) == {LadderContract(d, i) : i \in LadderRanks(d)}
\* the front contract of table day d has expired by the next table day
RollsAfter(d) ==
    /\ d \in Processed /\ d + 1 \in Processed
    /\ 1 \in LadderRanks(d)
    /\ Ltd(LadderContract(d, 1)) < Index[d + 1]
\* the rolled-off contract is gone and the rank columns of the next day hold
\* the spreads of that day's own rank-1 and rank-i contracts
RollColumns(d) ==
    /\ LadderContract(d, 1) \notin LadderContracts(d + 1)
    /\ \A i \in FarRanks :
         /\ IsSome(spreads_dollar[d + 1][i]) =>
              /\ {1, i} \subseteq LadderRanks(d + 1)
              /\ spreads_dollar[d + 1][i] =
                   Some(FarPrice(d + 1, i) - NearPrice(d + 1))
         /\ IsSome(spreads_percent[d + 1][i]) =>
              /\ {1, i} \subseteq LadderRanks(d + 1)
              /\ CellIs(spreads_percent[d + 1][i],
                        Rat(FarPrice(d + 1, i) - NearPrice(d + 1),
                            NearPrice(d + 1)))
         /\ IsSome(spreads_percent_annual[d + 1][i]) =>
              /\ {1, i} \subseteq LadderRanks(d + 1)
              /\ CellIs(spreads_percent_annual[d + 1][i],
                        Rat((FarPrice(d + 1, i) - NearPrice(d + 1)) * TDPY,
                            NearPrice(d + 1) * DayGap(d + 1, i)))
\* every ladder contract of d still eligible on the next day is one rank up
MovesUpOne(d) ==
    \A j \in LadderRanks(d) \ {1} :
        LadderContract(d, j) \in Eligible(d + 1) =>
            /\ j - 1 \in LadderRanks(d + 1)
            /\ LadderContract(d + 1, j - 1) = LadderContract(d, j)

\* C9 as amended: when the rank-1 contract X of day d has expired by the
\* next table day d', X is absent from the ladder of d' and the rank columns
\* of d' hold the spreads of the new rank-1 and rank-i contracts; every other
\* contract moves up exactly one rank when the contracts eligible on d' are
\* those eligible on d other than X
C9_ImplicitRoll ==
    Returned =>
    \A d \in 1..NumDays :
        RollsAfter(d) =>
            /\ RollColumns(d)
            /\ Eligible(d + 1) = Eligible(d) \ {LadderContract(d, 1)}
                 => MovesUpOne(d)

\* a roll with spreads in column spread_1_2m on both days, from different
\* contract pairs
C9_Witness ==
    \E d \in 1..NumDays :
        /\ RollsAfter(d)
        /\ Eligible(d + 1) = Eligible(d) \ {LadderContract(d, 1)}
        /\ LadderRanks(d) = 1..3 /\ LadderRanks(d + 1) = 1..2
        /\ IsSome(spreads_dollar[d][2]) /\ IsSome(spreads_dollar[d + 1][2])
        /\ LadderContract(d + 1, 1) = LadderContract(d, 2)
        /\ LadderContract(d + 1, 2) = LadderContract(d, 3)

\* C9 as claimed: after a roll every still-eligible contract is one rank up
C9_Original ==
    Returned =>
    \A d \in 1..NumDays :
        RollsAfter(d) => RollColumns(d) /\ MovesUpOne(d)

\* --- the cells of one day as a function of the day's price row, the
\* metadata and the configuration
ColPos(c) == CHOOSE k \in 1..NumContracts : Columns[k] = c
Ahead(d, e, c) ==
    \/ Days(d, e) < Days(d, c)
    \/ Days(d, e) = Days(d, c) /\ ColPos(e) < ColPos(c)
RankOf(d, c) == 1 + Cardinality({e \in Eligible(d) : Ahead(d, e, c)})
AtRank(d, i) == CHOOSE c \in Eligible(d) : RankOf(d, c) = i
RowRanks(d) == 1..Min(Cardinality(Eligible(d)), Horizon)
\* the legs of the day's ranks: contract, price and days-to-expiry
RowLegs(d) ==
    [i \in RowRanks(d) |->
        LET c == AtRank(d, i)
        IN  [contract |-> c, price |-> Price(d, c), days |-> Days(d, c)]]
LegsGuard(legs, i) ==
    legs[1].price # 0 /\ legs[1].days # 0 /\ legs[i].days # 0
LegsGap(legs, i) == legs[i].days - legs[1].days
LegsDiff(legs, i) == legs[i].price - legs[1].price
SameRat(cell, present, q) == IF present THEN CellIs(cell, q) ELSE cell = None
DayAsRow(d) ==
    LET legs == RowLegs(d)
        has(i) == i \in DOMAIN legs /\ LegsGuard(legs, i)
    IN  /\ \A i \in 1..NumContracts :
             /\ monthly_futures[d].future[i] =
                  IF i \in DOMAIN legs THEN Some(legs[i].contract) ELSE None
             /\ monthly_futures[d].price[i] =
                  IF i \in DOMAIN legs THEN Some(legs[i].price) ELSE None
             /\ days_to_expiry_df[d][i] =
                  IF i \in DOMAIN legs THEN Some(legs[i].days) ELSE None
        /\ \A i \in FarRanks :
             /\ spreads_dollar[d][i] =
                  IF has(i) /\ DollarOn THEN Some(LegsDiff(legs, i)) ELSE None
             /\ SameRat(spreads_percent[d][i], has(i) /\ PercentOn,
                        Rat(LegsDiff(legs, i), legs[1].price))
             /\ SameRat(spreads_percent_annual[d][i],
                        has(i) /\ AnnualOn /\ LegsGap(legs, i) > 0,
                        Rat(LegsDiff(legs, i) * TDPY,
                            legs[1].price * LegsGap(legs, i)))
DayAbsent(d) ==
    /\ monthly_futures[d] = [future |-> EmptyRow, price |-> EmptyRow]
    /\ days_to_expiry_df[d] = EmptyRow
NoSpreads(d) ==
    /\ spreads_dollar[d] = EmptySpreadRow
    /\ spreads_percent[d] = EmptySpreadRow
    /\ spreads_percent_annual[d] = EmptySpreadRow
\* C10: a data gap on a day never raises or aborts: when the function ends,
\* a day without an eligible contract has all its cells absent, a day with
\* one eligible contract or a zero near price has its spread cells absent, a
\* pair with a non-positive day gap has its annualized cell absent; every day
\* processed carries the cells its own price row determines, a returned run
\* has processed every day, and a raise comes only from a pair that passes
\* the guard with a positive day gap
C10_GapsNeverAbort ==
    /\ \A d \in IF pc \in {"returned", "raised"} THEN Processed ELSE {} :
         LET legs == RowLegs(d)
         IN  /\ DayAsRow(d)
             /\ Eligible(d) = {} => DayAbsent(d) /\ NoSpreads(d)
             /\ Cardinality(Eligible(d)) = 1 => NoSpreads(d)
             /\ (Eligible(d) # {} /\ Price(d, AtRank(d, 1)) = 0) => NoSpreads(d)
             /\ \A i \in DOMAIN legs \ {1} :
                  LegsGap(legs, i) <= 0 => spreads_percent_annual[d][i] = None
    /\ pc = "returned" => Processed = 1..NumDays
    /\ pc = "raised" =>
         /\ ~PercentOn /\ AnnualOn
         /\ LET legs == RowLegs(pos)
            IN  \E i \in DOMAIN legs \ {1} :
                   LegsGuard(legs, i) /\ LegsGap(legs, i) > 0

\* a returned run whose first day has three eligible contracts and a zero
\* near price, hence no spread, and whose second day carries a ladder and an
\* annualized spread
C10_Witness ==
    /\ Returned
    /\ Cardinality(Eligible(1)) = 3
    /\ Price(1, LadderContract(1, 1)) = 0
    /\ NoSpreads(1)
    /\ LadderRanks(2) # {}
    /\ IsSome(spreads_percent_annual[2][2])

\* --- malformed inputs
StrictlyIncreasing(s) == \A k \in 1..(Len(s) - 1) : s[k] < s[k + 1]
\* no iteration of the loop has completed and no cell has been written
NothingComputed ==
    /\ Processed = {}
    /\ \A d \in 1..NumDays : DayAbsent(d) /\ NoSpreads(d)

\* C11: a price table whose day index has a duplicate day or is not strictly
\* increasing is rejected with an error before any day is processed: the
\* function never returns and no ladder or spread cell is computed for it
C11_MalformedIndexRejected ==
    ~StrictlyIncreasing(Index) =>
        /\ pc # "returned"
        /\ NothingComputed

\* C12: a configuration with a non-positive MAX_MONTHS_FORWARD or a
\* non-positive TRADING_DAYS_PER_YEAR is rejected before any day is
\* processed: the function never returns tables computed from it
C12_NonPositiveConfigRejected ==
    (Horizon <= 0 \/ TDPY <= 0) =>
        /\ pc # "returned"
        /\ NothingComputed

\* C13: each of the five returned tables has exactly the day sequence of the
\* input price table as its index, in ascending day order, and a day with no
\* eligible contract keeps its row in every table with every cell absent
C13_IndexAndEmptyRows ==
    Returned =>
        /\ result_index = Index
        /\ StrictlyIncreasing(result_index)
        /\ DOMAIN monthly_futures = 1..Len(result_index)
        /\ DOMAIN days_to_expiry_df = 1..Len(result_index)
        /\ DOMAIN spreads_dollar = 1..Len(result_index)
        /\ DOMAIN spreads_percent = 1..Len(result_index)
        /\ DOMAIN spreads_percent_annual = 1..Len(result_index)
        /\ \A d \in 1..NumDays :
              Eligible(d) = {} => DayAbsent(d) /\ NoSpreads(d)

\* --- spread kinds
\* the columns of a spread table: a column exists once a cell of it has been
\* written
SpreadColumns(t) == {i \in FarRanks : \E d \in 1..NumDays : IsSome(t[d][i])}
\* the call on the same price table and metadata with the annualized kind
\* enabled
WithAnnual ==
    create_monthly_futures_data(prices_df, metadata,
        [config EXCEPT !.CALCULATE_ANNUAL_SPREADS = TRUE])
SameButAnnual(on) ==
    /\ on.pc = "returned"
    /\ on.index = result_index
    /\ on.monthly_futures = monthly_futures
    /\ on.days_to_expiry_df = days_to_expiry_df
    /\ on.spreads_dollar = spreads_dollar
    /\ on.spreads_percent = spreads_percent

\* C14: with CALCULATE_ANNUAL_SPREADS disabled the returned annualized table
\* has no column, and the ladder, dollar, percent and days-to-expiry tables
\* are cell for cell those returned for the same inputs with
\* CALCULATE_ANNUAL_SPREADS enabled
C14_AnnualDisabledFrame ==
    (Returned /\ ~AnnualOn) =>
        /\ SpreadColumns(spreads_percent_annual) = {}
        /\ SameButAnnual(WithAnnual)

\* the call on the same price table and metadata with the three kinds
\* enabled
WithAllKinds ==
    create_monthly_futures_data(prices_df, metadata,
        [config EXCEPT !.CALCULATE_DOLLAR_SPREADS = TRUE,
                       !.CALCULATE_PERCENT_SPREADS = TRUE,
                       !.CALCULATE_ANNUAL_SPREADS = TRUE])

\* C15: with CALCULATE_PERCENT_SPREADS disabled and CALCULATE_ANNUAL_SPREADS
\* enabled the call completes without error, the percent table has no
\* column, and every annualized cell is ((far_price - near_price) /
\* near_price) * TRADING_DAYS_PER_YEAR / (far_days - near_days), the value it
\* has with the three kinds enabled
C15_FlagsIndependent ==
    (~PercentOn /\ AnnualOn) =>
        /\ pc # "raised"
        /\ Returned =>
             /\ SpreadColumns(spreads_percent) = {}
             /\ spreads_percent_annual = WithAllKinds.spreads_percent_annual
             /\ \A d \in 1..NumDays : \A i \in FarRanks :
                  IsSome(spreads_percent_annual[d][i]) =>
                      CellIs(spreads_percent_annual[d][i],
                             Rat((FarPrice(d, i) - NearPrice(d)) * TDPY,
                                 NearPrice(d) * DayGap(d, i)))

\* --- metadata gaps
\* the price table without the column of contract c
DropColumn(pdf, c) ==
    [index |-> pdf.index,
     cells |-> [d \in DOMAIN pdf.cells |->
                  [x \in (DOMAIN pdf.cells[d]) \ {c} |-> pdf.cells[d][x]]]]
\* the call has ended with the tables r.* in the way r.pc
EndedAs(r) ==
    /\ r.pc = pc
    /\ r.index = result_index
    /\ r.monthly_futures = monthly_futures
    /\ r.days_to_expiry_df = days_to_expiry_df
    /\ r.spreads_dollar = spreads_dollar
    /\ r.spreads_percent = spreads_percent
    /\ r.spreads_percent_annual = spreads_percent_annual
Ended == pc \in {"returned", "raised", "value_error"}

\* C17: a contract with no metadata entry, or with a missing, empty or
\* unparsable last_trade_date, is in no ladder on any day, priced or not;
\* the call ends as, and with the tables of, the call on the price table
\* without that contract's column, and it ends in an error only where the
\* day index or the spread kinds make it (never because of the contract)
C17_UndatedExcluded ==
    Ended =>
    \A c \in Contracts :
        ~HasDate(c) =>
            /\ \A d \in 1..NumDays : \A i \in 1..NumContracts :
                  monthly_futures[d].future[i] # Some(c)
            /\ EndedAs(create_monthly_futures_data(DropColumn(prices_df, c),
                                                    metadata, config))
            /\ (StrictlyIncreasing(Index) /\ (PercentOn \/ ~AnnualOn))
                  => Returned

\* a returned run in which a priced contract without a metadata entry is
\* left out while the two other contracts are ranked and spread
C17_Witness ==
    /\ Returned
    /\ \E c \in Contracts \ DOMAIN metadata : \E d \in 1..NumDays :
          /\ Priced(d, c)
          /\ LadderRanks(d) = 1..2
          /\ IsSome(spreads_dollar[d][2])

\* a returned run in which a priced contract with an unparsable date and a
\* priced contract with an empty date are left out of a one-rank ladder
C17_WitnessUnparsable ==
    /\ Returned
    /\ \E b, n \in DOMAIN metadata : \E d \in 1..NumDays :
          /\ metadata[b].kind = "bad" /\ metadata[n].kind = "null"
          /\ Priced(d, b) /\ Priced(d, n)
          /\ LadderRanks(d) = {1}

\* --- the guard of the spreads
\* the ladder of day d is emitted: every rank of the day with its contract's
\* price and days-to-expiry
LadderEmitted(d) ==
    /\ LadderRanks(d) = RowRanks(d)
    /\ \A i \in LadderRanks(d) :
          /\ LadderContract(d, i) \in Eligible(d)
          /\ monthly_futures[d].price[i] = Some(Price(d, LadderContract(d, i)))
          /\ days_to_expiry_df[d][i] = Some(Days(d, LadderContract(d, i)))

\* C18: on a day where an eligible contract expires (days-to-expiry 0) that
\* contract is at rank 1 and the guard skips every far rank: the day has no
\* dollar, percent or annualized cell, and its ladder is emitted
C18_ExpiringFront ==
    Ended =>
    \A d \in Processed :
        (Horizon >= 1 /\ \E c \in Eligible(d) : Days(d, c) = 0) =>
            /\ 1 \in LadderRanks(d)
            /\ Ltd(LadderContract(d, 1)) = Index[d]
            /\ days_to_expiry_df[d][1] = Some(0)
            /\ NoSpreads(d)
            /\ LadderEmitted(d)

\* a returned run with all kinds enabled and a day whose rank 1 expires that
\* day at a non-zero price, with two later contracts at other prices behind
C18_Witness ==
    /\ Returned /\ DollarOn /\ PercentOn /\ AnnualOn
    /\ \E d \in Processed :
          /\ LadderRanks(d) = 1..3
          /\ days_to_expiry_df[d][1] = Some(0)
          /\ NearPrice(d) # 0
          /\ FarPrice(d, 2) # NearPrice(d)
          /\ FarDays(d, 2) > 0 /\ FarDays(d, 3) > FarDays(d, 2)
          /\ NoSpreads(d)

\* C19: on a day whose rank-1 price is 0 no dollar, percent or annualized
\* cell is emitted, the ladder and days-to-expiry cells of the day are
\* emitted, the call does not end in an error on that day, and no emitted
\* percent or annualized value has a zero denominator
C19_ZeroNearPrice ==
    /\ Ended =>
         \A d \in Processed :
             (1 \in LadderRanks(d) /\ NearPrice(d) = 0) =>
                 /\ NoSpreads(d)
                 /\ LadderEmitted(d)
                 /\ monthly_futures[d].price[1] = Some(0)
    /\ pc = "raised" =>
         /\ Eligible(pos) # {}
         /\ Price(pos, AtRank(pos, 1)) # 0
    /\ Ended =>
         \A d \in 1..NumDays : \A i \in FarRanks :
             /\ IsSome(spreads_percent[d][i]) =>
                   Val(spreads_percent[d][i])[2] # 0
             /\ IsSome(spreads_percent_annual[d][i]) =>
                   Val(spreads_percent_annual[d][i])[2] # 0

\* a returned run with all kinds enabled and a day whose rank-1 price is 0,
\* with days-to-expiry 1, while a far rank has a non-zero price and a
\* positive day gap
C19_Witness ==
    /\ Returned /\ DollarOn /\ PercentOn /\ AnnualOn
    /\ \E d \in Processed :
          /\ LadderRanks(d) = 1..3
          /\ NearPrice(d) = 0
          /\ days_to_expiry_df[d][1] = Some(1)
          /\ FarPrice(d, 2) # 0
          /\ DayGap(d, 2) > 0
          /\ NoSpreads(d)

\* C20: two eligible contracts with the same days-to-expiry on day d are
\* ranked in the order of their columns: where both are in the ladder the
\* one whose column comes first has the lower rank, and the one whose column
\* comes later is never ranked without the other
C20_TiesByColumnOrder ==
    Ended =>
    \A d \in Processed :
        /\ \A i, j \in LadderRanks(d) :
              (i < j /\ LadderDaysAt(d, i) = LadderDaysAt(d, j)) =>
                  ColPos(LadderContract(d, i)) < ColPos(LadderContract(d, j))
        /\ \A j \in LadderRanks(d) : \A c \in Eligible(d) :
              (/\ Days(d, c) = Days(d, LadderContract(d, j))
               /\ ColPos(c) < ColPos(LadderContract(d, j))) =>
                  \E i \in LadderRanks(d) : i < j /\ LadderContract(d, i) = c

\* a day on which the first two columns tie and the third column, with
\* fewer days, is ranked ahead of both
C20_Witness ==
    /\ Returned
    /\ \E d \in Processed :
          /\ LadderRanks(d) = 1..3
          /\ LadderContract(d, 1) = Columns[3]
          /\ LadderContract(d, 2) = Columns[1]
          /\ LadderContract(d, 3) = Columns[2]
          /\ LadderDaysAt(d, 1) < LadderDaysAt(d, 2)
          /\ LadderDaysAt(d, 2) = LadderDaysAt(d, 3)

\* C21: on a day with exactly one eligible contract the ladder has exactly
\* one entry, at rank 1, and the day has no spread cell of any kind; with
\* MAX_MONTHS_FORWARD = 1 no day has a spread cell
C21_SingleContract ==
    Ended =>
        /\ \A d \in Processed :
              Cardinality(Eligible(d)) = 1 =>
                  /\ LadderRanks(d) = {1}
                  /\ LadderContract(d, 1) \in Eligible(d)
                  /\ NoSpreads(d)
        /\ Horizon = 1 => \A d \in 1..NumDays : NoSpreads(d)

\* --- no cross-day state
\* the price table that has the row of day d only
OneDay(pdf, d) == [index |-> <<pdf.index[d]>>, cells |-> <<pdf.cells[d]>>]
\* the cells of day d in the five tables t
DayCells(t, d) ==
    [future |-> t.monthly_futures[d].future,
     price |-> t.monthly_futures[d].price,
     days |-> t.days_to_expiry_df[d],
     dollar |-> t.spreads_dollar[d],
     percent |-> t.spreads_percent[d],
     annual |-> t.spreads_percent_annual[d]]
Tables ==
    [monthly_futures |-> monthly_futures,
     days_to_expiry_df |-> days_to_expiry_df,
     spreads_dollar |-> spreads_dollar,
     spreads_percent |-> spreads_percent,
     spreads_percent_annual |-> spreads_percent_annual]
\* the days whose cells the call has written when it ends
Written == Processed \cup (IF pc = "raised" THEN {pos} ELSE {})

\* C22: the cells of day d in the five tables are those the call gives for
\* the price table that has the row of d alone, with the same metadata and
\* configuration: they depend on no other day, hence not on the order in
\* which the days are processed; a returned call has written every day
C22_NoCrossDayState ==
    Ended =>
        /\ \A d \in Written :
              DayCells(Tables, d) =
                DayCells(create_monthly_futures_data(OneDay(prices_df, d),
                                                     metadata, config), 1)
        /\ Returned => Written = 1..NumDays

\* a returned run whose two days have different price rows, a contract
\* priced on the first day only, and a spread on each day
C22_Witness ==
    /\ Returned /\ NumDays = 2
    /\ prices_df.cells[1] # prices_df.cells[2]
    /\ \E c \in Contracts : Priced(1, c) /\ ~Priced(2, c) /\ HasDate(c)
                              /\ Ltd(c) >= Index[2]
    /\ IsSome(spreads_dollar[1][2])
    /\ IsSome(spreads_dollar[2][2])

\* C23: create_monthly_futures_data and calculate_days_to_expiry leave their
\* inputs unchanged: no step of a call changes the price table, the metadata
\* or the configuration, and no step after get_last_trade_dates has returned
\* changes the contract -> last trade date mapping
C23_InputsUnchanged ==
    [][/\ prices_df' = prices_df
       /\ metadata' = metadata
       /\ config' = config
       /\ pc # "start" => last_trade_dates' = last_trade_dates]_vars

\* a returned run that has ranked contracts on its last day while the
\* mapping still holds an expired contract and a null date, both of which
\* calculate_days_to_expiry has passed over
C23_Witness ==
    /\ Returned
    /\ LadderRanks(NumDays) # {}
    /\ \E c \in DOMAIN last_trade_dates : last_trade_dates[c] = None
    /\ \E c \in DOMAIN last_trade_dates :
          /\ last_trade_dates[c] # None
          /\ Val(last_trade_dates[c]) < Index[NumDays]

\* --- columns of the returned tables
\* a column of a ladder table exists once a cell of it has been written
FutureColumns ==
    {i \in 1..NumContracts :
       \E d \in 1..NumDays : IsSome(monthly_futures[d].future[i])}
PriceColumns ==
    {i \in 1..NumContracts :
       \E d \in 1..NumDays : IsSome(monthly_futures[d].price[i])}
DaysColumns ==
    {i \in 1..NumContracts : \E d \in 1..NumDays : IsSome(days_to_expiry_df[d][i])}
\* the ranks filled on at least one day
FilledRanks == UNION {RowRanks(d) : d \in 1..NumDays}
\* the far ranks whose pair passes the guard on at least one day, and those
\* that do so with a positive day gap
GuardedRanks ==
    {i \in FarRanks :
       \E d \in 1..NumDays :
          LET legs == RowLegs(d) IN i \in DOMAIN legs /\ LegsGuard(legs, i)}
AnnualizedRanks ==
    {i \in FarRanks :
       \E d \in 1..NumDays :
          LET legs == RowLegs(d)
          IN  i \in DOMAIN legs /\ LegsGuard(legs, i) /\ LegsGap(legs, i) > 0}

\* C24 as amended: the returned ladder table has the columns month_{i}_future
\* and month_{i}_price, and the days-to-expiry table month_{i}_days, exactly
\* for the ranks i filled on at least one day (1..min(MAX_MONTHS_FORWARD,
\* most eligible contracts of a day)); a spread table has the column of far
\* rank i exactly when its kind is enabled and some day's pair (1, i) passes
\* the guard, for the annualized table with a positive day gap
C24_ColumnsWritten ==
    Returned =>
        /\ FutureColumns = FilledRanks
        /\ PriceColumns = FilledRanks
        /\ DaysColumns = FilledRanks
        /\ \A i \in FilledRanks : i <= Horizon
        /\ SpreadColumns(spreads_dollar) = IF DollarOn THEN GuardedRanks ELSE {}
        /\ SpreadColumns(spreads_percent) = IF PercentOn THEN GuardedRanks ELSE {}
        /\ SpreadColumns(spreads_percent_annual) =
              IF AnnualOn THEN AnnualizedRanks ELSE {}

\* a returned run with all kinds enabled and horizon 3 in which no day has
\* more than two eligible contracts: the tables have rank 1 and 2 only
C24_Witness ==
    /\ Returned /\ DollarOn /\ PercentOn /\ AnnualOn
    /\ Horizon = 3
    /\ FutureColumns = 1..2
    /\ DaysColumns = 1..2
    /\ SpreadColumns(spreads_dollar) = {2}
    /\ SpreadColumns(spreads_percent_annual) = {2}

\* C24 as claimed: the ladder and days-to-expiry tables have their columns
\* for every i in 1..MAX_MONTHS_FORWARD and each enabled spread table has
\* its column for every far rank in 2..MAX_MONTHS_FORWARD
C24_Original ==
    Returned =>
        /\ FutureColumns = 1..Horizon
        /\ PriceColumns = 1..Horizon
        /\ DaysColumns = 1..Horizon
        /\ DollarOn => SpreadColumns(spreads_dollar) = 2..Horizon
        /\ PercentOn => SpreadColumns(spreads_percent) = 2..Horizon
        /\ AnnualOn => SpreadColumns(spreads_percent_annual) = 2..Horizon

\* C25: for every day d and rank i, month_{i}_future, month_{i}_price and
\* month_{i}_days are all present or all absent; when present the price is
\* the price-table cell of that contract on d and the days are the
\* contract's last trade date minus d; no contract has two ranks on a day
C25_ConsistentTriples ==
    Ended =>
    \A d \in 1..NumDays :
        /\ \A i \in 1..NumContracts :
              /\ IsSome(monthly_futures[d].future[i])
                    <=> IsSome(monthly_futures[d].price[i])
              /\ IsSome(monthly_futures[d].future[i])
                    <=> IsSome(days_to_expiry_df[d][i])
              /\ IsSome(monthly_futures[d].future[i]) =>
                    LET c == Val(monthly_futures[d].future[i])
                    IN  /\ Priced(d, c)
                        /\ monthly_futures[d].price[i] = prices_df.cells[d][c]
                        /\ HasDate(c)
                        /\ days_to_expiry_df[d][i] = Some(Ltd(c) - Index[d])
        /\ \A i, j \in LadderRanks(d) :
              i # j => LadderContract(d, i) # LadderContract(d, j)

\* a day whose three ranks are in another order than the columns, with three
\* different prices
C25_Witness ==
    /\ Returned
    /\ \E d \in 1..NumDays :
          /\ LadderRanks(d) = 1..3
          /\ LadderContract(d, 1) # Columns[1]
          /\ LadderContract(d, 3) # Columns[3]
          /\ LadderPriceAt(d, 1) # LadderPriceAt(d, 2)
          /\ LadderPriceAt(d, 2) # LadderPriceAt(d, 3)
          /\ LadderPriceAt(d, 1) # LadderPriceAt(d, 3)

\* C26: with all spread kinds enabled, on every day the dollar and the
\* percent cell are present for every far rank 2..min(n, MAX_MONTHS_FORWARD)
\* or for none of them, according to the near leg alone (its price and its
\* days-to-expiry are not 0); no cell lies outside these ranks, and a present
\* spread cell of any kind has ladder entries at rank 1 and at its far rank
C26_AllOrNothing ==
    (Returned /\ DollarOn /\ PercentOn /\ AnnualOn) =>
    \A d \in 1..NumDays :
        LET far == FarRanks \cap RowRanks(d)
            all == \A i \in far : /\ IsSome(spreads_dollar[d][i])
                                   /\ IsSome(spreads_percent[d][i])
            none == \A i \in far : /\ spreads_dollar[d][i] = None
                                    /\ spreads_percent[d][i] = None
        IN  /\ all \/ none
            /\ far # {} => (all <=> (NearPrice(d) # 0 /\ NearDays(d) # 0))
            /\ \A i \in FarRanks :
                  (\/ IsSome(spreads_dollar[d][i])
                   \/ IsSome(spreads_percent[d][i])
                   \/ IsSome(spreads_percent_annual[d][i])) =>
                      /\ i \in far
                      /\ {1, i} \subseteq LadderRanks(d)

\* a returned run with all kinds enabled whose first day has the dollar and
\* percent cells of both far ranks and whose second day, on which the front
\* contract expires, has three ranks and none of them
C26_Witness ==
    /\ Returned /\ DollarOn /\ PercentOn /\ AnnualOn
    /\ NumDays = 2
    /\ LadderRanks(1) = 1..3 /\ LadderRanks(2) = 1..3
    /\ \A i \in FarRanks : /\ IsSome(spreads_dollar[1][i])
                             /\ IsSome(spreads_percent[1][i])
    /\ NearPrice(2) # 0
    /\ NoSpreads(2)

\* ======================================================================
\* merge_with_existing (src/data_fetcher.py:244-273), as fetch_commodity_data
\* calls it
\* ======================================================================
\* frame[frame.index <= cutoff_date] and frame[frame.index > cutoff_date]
RowsUpTo(frame, cutoff_date) ==
    SelectSeq(frame, LAMBDA r : r.day <= cutoff_date)
RowsAfter(frame, cutoff_date) ==
    SelectSeq(frame, LAMBDA r : r.day > cutoff_date)

\* DataFrame.sort_index(): the rows in ascending order of their day
RECURSIVE InsertRow(_, _)
InsertRow(frame, r) ==
    IF frame = <<>> THEN <<r>>
    ELSE IF frame[Len(frame)].day <= r.day THEN Append(frame, r)
    ELSE Append(InsertRow(SubSeq(frame, 1, Len(frame) - 1), r),
                frame[Len(frame)])
RECURSIVE sort_index(_)
sort_index(frame) ==
    IF frame = <<>> THEN <<>>
    ELSE InsertRow(sort_index(SubSeq(frame, 1, Len(frame) - 1)),
                   frame[Len(frame)])

\* line 255
cutoff_date(last, cfg) == last - cfg.LOOKBACK_DAYS

\* lines 258-266: pd.concat([existing[index <= cutoff], new[index > cutoff]])
\* .sort_index()
MergeFrames(existing, new, last, cfg) ==
    sort_index(RowsUpTo(existing, cutoff_date(last, cfg))
               \o RowsAfter(new, cutoff_date(last, cfg)))

\* a stored or fetched frame: one row per day of the set days, in ascending
\* order, each row marked with the frame it comes from
RECURSIVE FrameOf(_, _)
FrameOf(days, mark) ==
    IF days = {} THEN <<>>
    ELSE LET last == CHOOSE d \in days : \A e \in days : e <= d
         IN  Append(FrameOf(days \ {last}, mark), [day |-> last, row |-> mark])

\* what fetch_commodity_data passes: last_date is the last day of the stored
\* prices (check_existing_data, line 61), the fetch starts on last_date -
\* LOOKBACK_DAYS (line 320) and is not empty (line 346); prices and volumes
\* come from the same raw rows (process_price_volume_data)
MergeInputs ==
    {[existing |-> E, new |-> N, last_date |-> last,
      config |-> [LOOKBACK_DAYS |-> k]] :
     E \in (SUBSET (1..MaxDay)) \ {{}}, N \in (SUBSET (1..MaxDay)) \ {{}},
     last \in 1..MaxDay, k \in 0..MaxLookback}

MergeEntry(inp) ==
    /\ inp.last_date \in inp.existing
    /\ \A d \in inp.existing : d <= inp.last_date
    /\ \A d \in inp.new : d >= inp.last_date - inp.config.LOOKBACK_DAYS
    /\ existing_prices = FrameOf(inp.existing, "existing prices")
    /\ existing_volumes = FrameOf(inp.existing, "existing volumes")
    /\ new_prices = FrameOf(inp.new, "new prices")
    /\ new_volumes = FrameOf(inp.new, "new volumes")
    /\ last_date = inp.last_date
    /\ fetch_config = inp.config
    /\ merged_prices = <<>>
    /\ merged_volumes = <<>>
    /\ merge_pc = "start"

\* create_monthly_futures_data is not running
CalcIdle ==
    /\ prices_df = <<>>
    /\ metadata = <<>>
    /\ config = <<>>
    /\ result_index = <<>>
    /\ last_trade_dates = <<>>
    /\ monthly_futures = <<>>
    /\ days_to_expiry_df = <<>>
    /\ spreads_dollar = <<>>
    /\ spreads_percent = <<>>
    /\ spreads_percent_annual = <<>>
    /\ days_to_expiry = <<>>
    /\ pct_spread = None
    /\ pos = 0
    /\ pc = "idle"

MergeInit ==
    /\ \E inp \in MergeInputs : MergeEntry(inp)
    /\ CalcIdle
    /\ BackfillIdle
    /\ RollIdle
    /\ BatchIdle

\* merge_with_existing, lines 244-273
merge_with_existing ==
    /\ merge_pc = "start"
    /\ merged_prices' =
         MergeFrames(existing_prices, new_prices, last_date, fetch_config)
    /\ merged_volumes' =
         MergeFrames(existing_volumes, new_volumes, last_date, fetch_config)
    /\ merge_pc' = "returned"
    /\ UNCHANGED <<calc_vars, roll_vars, batch_vars, backfill_vars, existing_prices, existing_volumes,
                   new_prices, new_volumes, last_date, fetch_config>>

MergeNext == merge_with_existing

MergeSpec == MergeInit /\ [][MergeNext]_vars

\* --- claims on merge_with_existing
FrameDays(frame) == {frame[k].day : k \in 1..Len(frame)}
FrameAscending(frame) ==
    \A k \in 1..(Len(frame) - 1) : frame[k].day < frame[k + 1].day
RowOf(frame, d) == (CHOOSE k \in 1..Len(frame) : frame[k].day = d)
Cutoff == last_date - fetch_config.LOOKBACK_DAYS
\* merged holds every day of existing and of new once, in ascending order,
\* with the row of new after the cutoff and the row of existing up to it
MergedAll(merged, existing, new) ==
    /\ FrameAscending(merged)
    /\ FrameDays(merged) = FrameDays(existing) \cup FrameDays(new)
    /\ \A k \in 1..Len(merged) :
          IF merged[k].day > Cutoff
          THEN /\ merged[k].day \in FrameDays(new)
               /\ merged[k] = new[RowOf(new, merged[k].day)]
          ELSE /\ merged[k].day \in FrameDays(existing)
               /\ merged[k] = existing[RowOf(existing, merged[k].day)]

\* C27: merge_with_existing, with cutoff = last_date - LOOKBACK_DAYS,
\* returns price and volume tables in ascending day order that contain every
\* day of the existing history and every day of the new fetch exactly once;
\* a day after the cutoff carries the row of the new fetch, a day on or
\* before the cutoff carries the existing row
C27_MergeKeepsEveryDay ==
    merge_pc = "returned" =>
        /\ MergedAll(merged_prices, existing_prices, new_prices)
        /\ MergedAll(merged_volumes, existing_volumes, new_volumes)

\* ======================================================================
\* identify_roll_dates (src/spreads_visualizer.py:32-48)
\* ======================================================================
\* a column month_1_future of n days: each cell a contract id or NaN
FrontColumns ==
    UNION {[1..n -> {None} \cup {Some(c) : c \in Contracts}] :
           n \in 0..MaxLadderDays}

\* a ladder table with the column month_1_future, or one without it (no
\* day of it had a ranked contract)
RollInputs ==
    {[has_front |-> TRUE, front |-> f] : f \in FrontColumns}
    \cup {[has_front |-> FALSE, front |-> [d \in 1..n |-> None]] :
           n \in 0..MaxLadderDays}

RollInit ==
    /\ monthly_futures_df \in RollInputs
    /\ roll_dates = <<>>
    /\ previous_front = None
    /\ roll_pos = 0
    /\ roll_pc = "start"
    /\ CalcIdle
    /\ BackfillIdle
    /\ MergeIdle
    /\ BatchIdle

\* line 43 testing the change only
IsNewFront_NoNaTest(current_front, previous) == current_front # previous
\* line 43: pd.notna(current_front) and current_front != previous_front
IsNewFront(current_front, previous) ==
    IsSome(current_front) /\ current_front # previous

\* lines 38-39: the column is missing, the empty list is returned
RollNoColumn ==
    /\ roll_pc = "start"
    /\ ~monthly_futures_df.has_front
    /\ roll_pc' = "returned"
    /\ UNCHANGED <<calc_vars, merge_vars, batch_vars, backfill_vars, monthly_futures_df, roll_dates,
                   previous_front, roll_pos>>

\* lines 38-41: the column is there, the loop starts
RollStart ==
    /\ roll_pc = "start"
    /\ monthly_futures_df.has_front
    /\ roll_pos' = 1
    /\ roll_pc' = "loop"
    /\ UNCHANGED <<calc_vars, merge_vars, batch_vars, backfill_vars, monthly_futures_df, roll_dates,
                   previous_front>>

\* lines 41-45: one date of the loop
RollStep ==
    /\ roll_pc = "loop"
    /\ roll_pos <= Len(monthly_futures_df.front)
    /\ LET current_front == monthly_futures_df.front[roll_pos]
       IN  IF IsNewFront(current_front, previous_front)
           THEN /\ roll_dates' = Append(roll_dates, roll_pos)
                /\ previous_front' = current_front
           ELSE UNCHANGED <<roll_dates, previous_front>>
    /\ roll_pos' = roll_pos + 1
    /\ UNCHANGED <<calc_vars, merge_vars, batch_vars, backfill_vars, monthly_futures_df, roll_pc>>

\* lines 47-48
RollReturn ==
    /\ roll_pc = "loop"
    /\ roll_pos > Len(monthly_futures_df.front)
    /\ roll_pc' = "returned"
    /\ UNCHANGED <<calc_vars, merge_vars, batch_vars, backfill_vars, monthly_futures_df, roll_dates,
                   previous_front, roll_pos>>

RollNext == RollNoColumn \/ RollStart \/ RollStep \/ RollReturn

RollSpec == RollInit /\ [][RollNext]_vars

\* --- claims on identify_roll_dates
Front(d) == monthly_futures_df.front[d]
RollDays == 1..Len(monthly_futures_df.front)
\* the days before d with a front contract
EarlierFronts(d) == {e \in RollDays : e < d /\ IsSome(Front(e))}
LatestFront(d) == CHOOSE e \in EarlierFronts(d) : \A x \in EarlierFronts(d) : x <= e
\* d has a front contract other than the most recent earlier one
IsRollDay(d) ==
    /\ IsSome(Front(d))
    /\ EarlierFronts(d) = {} \/ Front(LatestFront(d)) # Front(d)

\* C28: identify_roll_dates returns, in index order, exactly the days whose
\* month_1_future is present and differs from the most recent earlier
\* present one (the first day with a front contract is returned); a day
\* with an absent front contract is not returned and does not reset the
\* comparison; without the column nothing is returned
C28_RollDates ==
    roll_pc = "returned" =>
        /\ \A k \in 1..(Len(roll_dates) - 1) : roll_dates[k] < roll_dates[k + 1]
        /\ {roll_dates[k] : k \in 1..Len(roll_dates)} =
              {d \in RollDays : IsRollDay(d)}
        /\ \A k \in 1..Len(roll_dates) : IsSome(Front(roll_dates[k]))
        /\ \A d \in RollDays :
              (/\ IsSome(Front(d)) /\ d > 1 /\ EarlierFronts(d) # {}
               /\ Front(LatestFront(d)) = Front(d)) =>
                  \A k \in 1..Len(roll_dates) : roll_dates[k] # d

\* a returned scan of a column whose front contract persists across a gap
\* and then changes: the days 1 and 4 are returned, the days 2 and 3 are not
C28_Witness ==
    /\ roll_pc = "returned"
    /\ Len(monthly_futures_df.front) = 4
    /\ IsSome(Front(1)) /\ Front(2) = None /\ Front(3) = Front(1)
    /\ IsSome(Front(4)) /\ Front(4) # Front(1)
    /\ roll_dates = <<1, 4>>

\* ======================================================================
\* calculate_spreads_for_all (src/calculate_all_spreads.py:10-111)
\* ======================================================================
\* FetchConfig.__post_init__: the commodities of a default FetchConfig
COMMODITIES == <<"CL", "CO", "XB", "HO", "NG">>

total_commodities == Len(COMMODITIES)

\* the statements of the try block that can raise once the price file is
\* there: opening the metadata file, reading and calculating, saving, and
\* the report printed after the result is recorded
Stages == {"metadata", "calculate", "save", "report"}

Succeeded == [success |-> TRUE, error |-> "none"]
Failure(e) == [success |-> FALSE, error |-> e]

\* results[commodity] = result
SetResult(res, commodity, result) == (commodity :> result) @@ res

BatchInit ==
    /\ results = <<>>
    /\ batch_pos = 1
    /\ saved = {}
    /\ successful = 0
    /\ failed = 0
    /\ batch_pc = "loop"
    /\ CalcIdle
    /\ BackfillIdle
    /\ MergeIdle
    /\ RollIdle

InBatchLoop == batch_pc = "loop" /\ batch_pos <= total_commodities

\* lines 31-34: no prices.parquet for the commodity
BatchNoPrices ==
    /\ InBatchLoop
    /\ results' = SetResult(results, COMMODITIES[batch_pos],
                            Failure("No price data found"))
    /\ batch_pos' = batch_pos + 1
    /\ UNCHANGED <<calc_vars, merge_vars, roll_vars, backfill_vars, saved, successful,
                   failed, batch_pc>>

\* the loop ending at the first failure
BatchRaises_Stops ==
    /\ InBatchLoop
    /\ \E stage \in Stages :
          /\ results' = SetResult(results, COMMODITIES[batch_pos], Failure(stage))
          /\ saved' = IF stage = "report"
                      THEN saved \cup {COMMODITIES[batch_pos]}
                      ELSE saved
    /\ batch_pos' = total_commodities + 1
    /\ UNCHANGED <<calc_vars, merge_vars, roll_vars, backfill_vars, successful, failed,
                   batch_pc>>

\* lines 36-90: a statement of the try block raises; the handler records
\* the failure, also over a success recorded at lines 62-70, and the loop
\* goes on
BatchRaises ==
    /\ InBatchLoop
    /\ \E stage \in Stages :
          /\ results' = SetResult(results, COMMODITIES[batch_pos], Failure(stage))
          /\ saved' = IF stage = "report"
                      THEN saved \cup {COMMODITIES[batch_pos]}
                      ELSE saved
    /\ batch_pos' = batch_pos + 1
    /\ UNCHANGED <<calc_vars, merge_vars, roll_vars, backfill_vars, successful, failed,
                   batch_pc>>

\* lines 36-86: the try block runs to its end
BatchSucceeds ==
    /\ InBatchLoop
    /\ results' = SetResult(results, COMMODITIES[batch_pos], Succeeded)
    /\ saved' = saved \cup {COMMODITIES[batch_pos]}
    /\ batch_pos' = batch_pos + 1
    /\ UNCHANGED <<calc_vars, merge_vars, roll_vars, backfill_vars, successful, failed,
                   batch_pc>>

\* lines 100-111: the summary counts the successful results and reports
\* the rest of total_commodities as failed
BatchSummary ==
    /\ batch_pc = "loop"
    /\ batch_pos > total_commodities
    /\ LET n == Cardinality({c \in DOMAIN results : results[c].success})
       IN  /\ successful' = n
           /\ failed' = total_commodities - n
    /\ batch_pc' = "done"
    /\ UNCHANGED <<calc_vars, merge_vars, roll_vars, backfill_vars, results, batch_pos, saved>>

BatchNext == BatchNoPrices \/ BatchRaises \/ BatchSucceeds \/ BatchSummary

BatchSpec == BatchInit /\ [][BatchNext]_vars

\* --- claims on calculate_spreads_for_all
CommoditySet == {COMMODITIES[k] : k \in 1..total_commodities}
ProcessedCommodities == {COMMODITIES[k] : k \in 1..(batch_pos - 1)}

\* C29: the commodities are processed in list order, a failed commodity is
\* recorded as failed and the loop goes on; at the end every commodity has
\* one result and the reported successful and failed counts are the
\* numbers of successful and failed results, adding up to the number of
\* commodities
C29_EveryCommodityHasResult ==
    /\ batch_pc = "loop" => DOMAIN results = ProcessedCommodities
    /\ batch_pc = "done" =>
          /\ DOMAIN results = CommoditySet
          /\ successful = Cardinality({c \in CommoditySet : results[c].success})
          /\ failed = Cardinality({c \in CommoditySet : ~results[c].success})
          /\ successful + failed = total_commodities

\* a finished run in which the first commodity had no price file, the
\* second no metadata file, the third failed while saving, and the last
\* two succeeded
C29_Witness ==
    /\ batch_pc = "done"
    /\ results["CL"] = Failure("No price data found")
    /\ results["CO"] = Failure("metadata")
    /\ results["XB"] = Failure("save")
    /\ results["HO"].success /\ results["NG"].success
    /\ successful = 2 /\ failed = 3

\* ======================================================================
\* backfill_cl.main and fetch_full_history (src/backfill_cl.py:15-132)
\* ======================================================================
\* what input() can return at line 117
Answers == {"y", "Y", "n", "yes", ""}

\* str.lower on the answers
Lower(s) == IF s = "Y" THEN "y" ELSE s

\* os.path.exists
Exists(dir) == dir # "absent"

BackfillInit ==
    /\ existing_cl \in {"absent", "empty", "original"}
    /\ cl_dir = existing_cl
    /\ backup_dir = "absent"
    /\ backup_path = None
    /\ num_batches \in 1..MaxBatches
    /\ fetch_pos = 0
    /\ raw_data = "empty"
    /\ fetched_prices = "unset"
    /\ user_input = None
    /\ backfill_pc = "start"
    /\ CalcIdle
    /\ MergeIdle
    /\ RollIdle
    /\ BatchIdle

backfill_frame == <<calc_vars, merge_vars, roll_vars, batch_vars, existing_cl,
                    num_batches>>

\* main, lines 99-104: an existing CL directory is renamed to the backup
BackupExisting ==
    /\ backfill_pc = "start"
    /\ IF Exists(cl_dir)
       THEN /\ backup_path' = Some("backup")
            /\ backup_dir' = cl_dir
            /\ cl_dir' = "absent"
       ELSE UNCHANGED <<backup_path, backup_dir, cl_dir>>
    /\ backfill_pc' = "session"
    /\ UNCHANGED <<backfill_frame, fetch_pos, raw_data, fetched_prices, user_input>>

\* fetch_full_history, lines 20-36: the session starts and the metadata
\* is fetched, or one of the calls raises
FetchMetadata ==
    /\ backfill_pc = "session"
    /\ \E raises \in BOOLEAN :
          IF raises
          THEN /\ backfill_pc' = "except"
               /\ UNCHANGED fetch_pos
          ELSE /\ backfill_pc' = "prices"
               /\ fetch_pos' = 1
    /\ UNCHANGED <<backfill_frame, cl_dir, backup_dir, backup_path, raw_data,
                   fetched_prices, user_input>>

\* fetch_full_history, lines 44-62: one batch of the price loop returns
\* data or an empty frame, or raises
FetchBatch ==
    /\ backfill_pc = "prices"
    /\ fetch_pos <= num_batches
    /\ \E batch_data \in {"data", "empty", "raises"} :
          /\ backfill_pc' = IF batch_data = "raises" THEN "except" ELSE "prices"
          /\ raw_data' = IF batch_data = "data" THEN "data" ELSE raw_data
          /\ fetch_pos' = IF batch_data = "raises" THEN fetch_pos ELSE fetch_pos + 1
    /\ UNCHANGED <<backfill_frame, cl_dir, backup_dir, backup_path,
                   fetched_prices, user_input>>

\* fetch_full_history, lines 79-84, and main, lines 108-110: no data was
\* retrieved, prices_df is None and main returns
NoDataRetrieved ==
    /\ backfill_pc = "prices"
    /\ fetch_pos > num_batches
    /\ raw_data = "empty"
    /\ fetched_prices' = "None"
    /\ backfill_pc' = "returned"
    /\ UNCHANGED <<backfill_frame, cl_dir, backup_dir, backup_path, fetch_pos,
                   raw_data, user_input>>

\* fetch_full_history, lines 64-78, with save_commodity_data
\* (src/data_fetcher.py:275-305): the data is processed and saved; a
\* raise leaves the CL path as far as the save got
SaveData ==
    /\ backfill_pc = "prices"
    /\ fetch_pos > num_batches
    /\ raw_data = "data"
    /\ \E reached \in {"absent", "empty", "partial", "new"} :
          /\ cl_dir' = reached
          /\ IF reached = "new"
             THEN /\ fetched_prices' = "data"
                  /\ backfill_pc' = "report"
             ELSE /\ UNCHANGED fetched_prices
                  /\ backfill_pc' = "except"
    /\ UNCHANGED <<backfill_frame, backup_dir, backup_path, fetch_pos, raw_data,
                   user_input>>

\* main, lines 110-117: the report is printed and the user is asked, or
\* one of the statements raises
AskUser ==
    /\ backfill_pc = "report"
    /\ \/ \E answer \in Answers :
            /\ user_input' = Some(answer)
            /\ backfill_pc' = "answered"
       \/ /\ backfill_pc' = "except"
          /\ UNCHANGED user_input
    /\ UNCHANGED <<backfill_frame, cl_dir, backup_dir, backup_path, fetch_pos,
                   raw_data, fetched_prices>>

\* main, lines 118-122: on 'y' the backup is removed with os.rmdir, which
\* raises on a directory that is not empty
DeleteBackup ==
    /\ backfill_pc = "answered"
    /\ IF Lower(Val(user_input)) = "y" /\ IsSome(backup_path) /\ Exists(backup_dir)
       THEN IF backup_dir = "empty"
            THEN /\ backup_dir' = "absent"
                 /\ backfill_pc' = "returned"
            ELSE /\ backfill_pc' = "except"
                 /\ UNCHANGED backup_dir
       ELSE /\ backfill_pc' = "returned"
            /\ UNCHANGED backup_dir
    /\ UNCHANGED <<backfill_frame, cl_dir, backup_path, fetch_pos, raw_data,
                   fetched_prices, user_input>>

\* main, lines 124-132: the handler restores the backup; os.remove raises
\* on the directory at the CL path
RestoreBackup ==
    /\ backfill_pc = "except"
    /\ IF IsSome(backup_path) /\ Exists(backup_dir)
       THEN IF Exists(cl_dir)
            THEN /\ backfill_pc' = "raised"
                 /\ UNCHANGED <<cl_dir, backup_dir>>
            ELSE /\ cl_dir' = backup_dir
                 /\ backup_dir' = "absent"
                 /\ backfill_pc' = "returned"
       ELSE /\ backfill_pc' = "returned"
            /\ UNCHANGED <<cl_dir, backup_dir>>
    /\ UNCHANGED <<backfill_frame, backup_path, fetch_pos, raw_data,
                   fetched_prices, user_input>>

BackfillNext ==
    \/ BackupExisting
    \/ FetchMetadata
    \/ FetchBatch
    \/ NoDataRetrieved
    \/ SaveData
    \/ AskUser
    \/ DeleteBackup
    \/ RestoreBackup

BackfillSpec == BackfillInit /\ [][BackfillNext]_vars

\* --- claims on backfill_cl.main
MainEnded == backfill_pc \in {"returned", "raised"}
Fetching == backfill_pc \in {"session", "prices"}
BackupDeleted == IsSome(backup_path) /\ ~Exists(backup_dir) /\ cl_dir # existing_cl

\* C30: the existing CL directory is at the backup path while the fetch
\* runs; when main has ended without the fetch having saved the new
\* history, the CL path holds the original data again; the backup is
\* deleted only after a saved fetch and the answer 'y'; after main has
\* returned the CL path holds the new history or the original data
C30_ExistingDataKept ==
    /\ (Fetching /\ Exists(existing_cl)) =>
          (backup_dir = existing_cl /\ cl_dir = "absent")
    /\ (MainEnded /\ cl_dir # "new") => cl_dir = existing_cl
    /\ BackupDeleted =>
          (fetched_prices = "data" /\ IsSome(user_input)
           /\ Lower(Val(user_input)) = "y")
    /\ backfill_pc = "returned" => cl_dir \in {"new", existing_cl}

====
